---- MODULE Spec2Model ----
(***************************************************************************)
(* Salary dashboard: the choropleth map's CSV ingestion (stateMap.js), the *)
(* Dashboard coordinator (dashboard.js) and the derived views it drives    *)
(* (treemap.js, sankey.js: SankeyViz and RadarChart), and the sunburst's    *)
(* own listener of the map's selections (sunburstGraph.js).                *)
(*                                                                         *)
(* Numbers: salaries are whole numbers; every derived statistic (mean,     *)
(* quantile, fraction) is an exact rational <<n, d>> in lowest terms with  *)
(* d > 0.  JavaScript's doubles are exact on the values used here.         *)
(* Text: CSV fields are strings; a missing column and the empty string are *)
(* both falsy in every test the code makes, so "" stands for both.         *)
(***************************************************************************)
EXTENDS Integers, Sequences, FiniteSets, TLC

VARIABLES
    clock,                \* milliseconds since `new Dashboard()` ran
    loadStatus,           \* stateMap.js Promise.all: "pending" | "done" | "error"
    debugData,            \* window.debugData, set once loadStatus = "done": [rows, stateStats]
    nationalMedian,       \* stateMap.js closure constant (UNDEFINED before the load)
    pollDue,              \* expiry times of the pending setTimeout(checkData, 100): {} or {t}
    timeoutPending,       \* the setTimeout(reject, 10000) has not fired yet
    initStatus,           \* Dashboard.init: "waiting" | "initialized" | "failed"
    errorReported,        \* console.error("Dashboard initialization failed") ran
    constructed,          \* init built its TreemapViz, SankeyViz and RadarChart
    listening,            \* setupEventListeners ran
    dataAssigned,         \* Dashboard.data is no longer null
    data,                 \* Dashboard.data (<<>> while it is null)
    selectedState,        \* Dashboard.selectedState
    selectedTrack,        \* Dashboard.selectedTrack
    selectedCompanySize,  \* Dashboard.selectedCompanySize
    treemap,              \* TreemapViz: [drawn, children] of hierarchyData, last update
    sankeyData,           \* SankeyViz: the {nodes, links} drawn by the last update
    industryAvg,          \* RadarChart.industryAvg
    lastEvent,            \* history: the last event the coordinator handled
    lastFiltered,         \* history: stateData / filteredData of the last handler run
    skillsData,           \* sunburstGraph.js: [status, rows] of its own d3.csv load
    sunburstSelectedState,  \* sunburstGraph.js: the global selectedState
    isVisualizationVisible  \* sunburstGraph.js: the global isVisualizationVisible

vars == <<clock, loadStatus, debugData, nationalMedian, pollDue, timeoutPending,
          initStatus, errorReported, constructed, listening, dataAssigned, data, selectedState, selectedTrack,
          selectedCompanySize, treemap, sankeyData, industryAvg, lastEvent,
          lastFiltered, skillsData, sunburstSelectedState, isVisualizationVisible>>

\* null, for the text-valued fields of the coordinator
NULL == "null"
\* undefined, for a number d3 could not compute (no values)
UNDEFINED == <<0, 0>>

-----------------------------------------------------------------------------
(* Bounds of the model *)

\* longest CSV file of the selection scenarios
MaxRows == 3
\* longest CSV file of the ingestion scenarios
MaxRawRows == 3
\* the longest CSV file the views are rebuilt from
MaxViewRows == 3

-----------------------------------------------------------------------------
(* Program constants *)

\* setTimeout(checkData, 100)
PollInterval == 100
\* setTimeout(() => reject(...), 10000)
Timeout == 10000

-----------------------------------------------------------------------------
(* Exact rational arithmetic *)

RECURSIVE GCD(_, _)
GCD(a, b) == IF b = 0 THEN a ELSE GCD(b, a % b)

Abs(x) == IF x < 0 THEN -x ELSE x

Rat(n, d) ==
    LET g == GCD(Abs(n), Abs(d))
        s == IF d < 0 THEN -1 ELSE 1
    IN  <<(s * n) \div g, (s * d) \div g>>

RInt(n) == <<n, 1>>
RAdd(a, b) == Rat(a[1] * b[2] + b[1] * a[2], a[2] * b[2])
RSub(a, b) == Rat(a[1] * b[2] - b[1] * a[2], a[2] * b[2])
RMul(a, b) == Rat(a[1] * b[1], a[2] * b[2])
RLe(a, b) == a[1] * b[2] <= b[1] * a[2]
RLt(a, b) == a[1] * b[2] < b[1] * a[2]

-----------------------------------------------------------------------------
(* Sequence helpers standing for Array.prototype.filter / map *)

Filter(s, Test(_)) ==
    LET F[i \in 0..Len(s)] ==
            IF i = 0 THEN <<>>
            ELSE IF Test(s[i]) THEN Append(F[i - 1], s[i]) ELSE F[i - 1]
    IN  F[Len(s)]

Map(s, F(_)) == [i \in 1..Len(s) |-> F(s[i])]

Count(s, Test(_)) == Cardinality({i \in 1..Len(s) : Test(s[i])})

RECURSIVE SumTo(_, _)
SumTo(s, k) == IF k = 0 THEN 0 ELSE s[k] + SumTo(s, k - 1)
Sum(s) == SumTo(s, Len(s))

\* all sequences over S of length 0..n
SeqsUpTo(S, n) == UNION {[1..k -> S] : k \in 0..n}

-----------------------------------------------------------------------------
(* Text helpers standing for String.prototype methods *)

Ch(s, i) == SubSeq(s, i, i)

UpperLetters == "ABCDEFGHIJKLMNOPQRSTUVWXYZ"
LowerLetters == "abcdefghijklmnopqrstuvwxyz"
Digits == "0123456789"

IsIn(c, alphabet) == \E i \in 1..Len(alphabet) : Ch(alphabet, i) = c
IndexIn(c, alphabet) == CHOOSE i \in 1..Len(alphabet) : Ch(alphabet, i) = c

IsUpper(c) == IsIn(c, UpperLetters)
IsDigit(c) == IsIn(c, Digits)
IsSpace(c) == c = " "

RECURSIVE toLowerCase(_)
toLowerCase(s) ==
    IF s = "" THEN ""
    ELSE LET c == Ch(s, 1)
             l == IF IsUpper(c) THEN Ch(LowerLetters, IndexIn(c, UpperLetters)) ELSE c
         IN  l \o toLowerCase(SubSeq(s, 2, Len(s)))

includes(s, sub) ==
    \E i \in 1..(Len(s) - Len(sub) + 1) : SubSeq(s, i, i + Len(sub) - 1) = sub

RECURSIVE removeCommas(_)
\* .replace(/,/g, '')
removeCommas(s) ==
    IF s = "" THEN ""
    ELSE LET c == Ch(s, 1)
         IN  (IF c = "," THEN "" ELSE c) \o removeCommas(SubSeq(s, 2, Len(s)))

RECURSIVE DigitPrefixLen(_, _)
\* how many digits s carries from position k on
DigitPrefixLen(s, k) ==
    IF k <= Len(s) /\ IsDigit(Ch(s, k)) THEN 1 + DigitPrefixLen(s, k + 1) ELSE 0

RECURSIVE DigitsValue(_, _)
\* the number written by the first n characters of s, all digits
DigitsValue(s, n) ==
    IF n = 0 THEN 0
    ELSE 10 * DigitsValue(s, n - 1) + (IndexIn(Ch(s, n), Digits) - 1)

\* parseFloat(s) || 0 on texts without a sign, decimal point or exponent: the
\* number written by the leading digits, 0 when there is none (NaN || 0).
parseFloatOr0(s) == DigitsValue(s, DigitPrefixLen(s, 1))

\* +(s || 0) and parseInt(x) || 0 on the flag texts "", "0", "1"
flagNumber(s) == IF s = "" THEN 0 ELSE parseFloatOr0(s)

-----------------------------------------------------------------------------
(* Inputs of the model *)

Row(location, salary, estimate, lo, hi, title, size, flags) ==
    [Location |-> location, avg_salary |-> salary, SalaryEstimate |-> estimate,
     min_salary |-> lo, max_salary |-> hi, JobTitle |-> title, Size |-> size,
     python_yn |-> flags[1], R_yn |-> flags[2], spark |-> flags[3],
     aws |-> flags[4], excel |-> flags[5]]

\* the CSV rows of the files behind the selection scenarios: two tracks in
\* California, one in New York, and a row without a state code
CsvPool ==
    { Row("San Jose, CA", "100", "", "", "", "Data Scientist", "51 to 200 employees",
          <<"1", "0", "0", "1", "0">>),
      Row("Los Angeles, CA", "140", "", "", "", "Senior Data Engineer", "10000+ employees",
          <<"1", "0", "1", "1", "0">>),
      Row("New York, NY", "90", "", "", "", "Data Scientist", "-1",
          <<"1", "1", "0", "0", "1">>),
      Row("Remote", "80", "", "", "", "ML Engineer", "Unknown",
          <<"1", "0", "0", "0", "0">>) }

\* the CSV rows of the files behind the ingestion scenarios: salaries in
\* thousands and in dollars, a "$NNK-$MMK" estimate, no salary, a zero salary,
\* no state code, a code that is no state's, a salary range in dollars and one
\* in thousands
RawPool ==
    { Row("San Jose, CA", "100", "", "", "", "Data Scientist", "51 to 200 employees",
          <<"1", "0", "0", "1", "0">>),
      Row("Los Angeles, CA", "140", "", "", "", "Senior Data Engineer", "10000+ employees",
          <<"1", "0", "1", "1", "0">>),
      Row("New York, NY", "90", "", "", "", "Data Scientist", "-1",
          <<"1", "1", "0", "0", "1">>),
      Row("Washington, DC", "120", "", "", "", "Business Analyst", "201 to 500 employees",
          <<"0", "0", "0", "0", "1">>),
      Row("Remote", "80", "", "", "", "ML Engineer", "Unknown",
          <<"1", "0", "0", "0", "0">>),
      Row("Austin, TX", "0", "$50K-$80K", "", "", "Data Analyst", "",
          <<"0", "1", "0", "0", "1">>),
      Row("Seattle, WA ", "", "$95,000", "90000", "130000", "Machine Learning Engineer",
          "1001 to 5000 employees", <<"1", "0", "1", "1", "0">>),
      Row("Boston, MA", "", "", "", "", "Software Engineer", "501 to 1000 employees",
          <<"", "", "", "", "">>),
      Row("Chicago, IL", "25", "", "20", "30", "Data Analyst", "201 to 500 employees",
          <<"0", "1", "0", "0", "1">>) }

\* the CSV rows of the files the views are rebuilt from: one title of every
\* track and one of none, two equal salaries, a size text of each of the three
\* phrase sets and a missing size
ViewPool ==
    { Row("San Jose, CA", "100", "", "", "", "Data Scientist", "51 to 200 employees",
          <<"1", "0", "0", "1", "0">>),
      Row("Los Angeles, CA", "140", "", "", "", "Senior Data Engineer", "10000+ employees",
          <<"1", "0", "1", "1", "0">>),
      Row("Austin, TX", "120", "", "", "", "Data Platform Engineer", "201 to 500 employees",
          <<"1", "0", "1", "0", "0">>),
      Row("Boston, MA", "100", "", "", "", "Business Analyst", "",
          <<"0", "1", "0", "0", "1">>),
      Row("Seattle, WA", "95", "", "", "", "Machine Learning Engineer",
          "1001 to 5000 employees", <<"1", "0", "0", "0", "0">>) }

AllRows == CsvPool \cup RawPool \cup ViewPool

\* the features of the map a user clicks: California, New York, Wyoming and
\* the District of Columbia (a feature without an entry in fipsToAbbr)
ClickedFeatures == {"06", "36", "56", "11"}

\* the instants at which the CSV file may arrive while the coordinator waits:
\* before the first poll, and around the last poll before the 10 s timer
LoadClocks == {0, Timeout - PollInterval}

\* the titles and size texts the rows carry
PoolTitles == {r.JobTitle : r \in AllRows}

-----------------------------------------------------------------------------
(* d3-array: group, mean, min, max, quantile, median *)

\* d3.group(s, Key): the keys of the Map, in insertion (first occurrence) order
groupKeys(s, Key(_)) ==
    LET F[i \in 0..Len(s)] ==
            IF i = 0 THEN <<>>
            ELSE IF \E j \in 1..Len(F[i - 1]) : F[i - 1][j] = Key(s[i])
                 THEN F[i - 1] ELSE Append(F[i - 1], Key(s[i]))
    IN  F[Len(s)]

\* d3.mean of whole numbers (UNDEFINED for no values)
mean(xs) == IF Len(xs) = 0 THEN UNDEFINED ELSE Rat(Sum(xs), Len(xs))

RECURSIVE RMinTo(_, _)
RMinTo(xs, k) ==
    IF k = 1 THEN xs[1]
    ELSE LET m == RMinTo(xs, k - 1) IN IF RLt(xs[k], m) THEN xs[k] ELSE m
\* d3.min of rationals
min(xs) == IF Len(xs) = 0 THEN UNDEFINED ELSE RMinTo(xs, Len(xs))

RECURSIVE RMaxTo(_, _)
RMaxTo(xs, k) ==
    IF k = 1 THEN xs[1]
    ELSE LET m == RMaxTo(xs, k - 1) IN IF RLt(m, xs[k]) THEN xs[k] ELSE m
\* d3.max of rationals
max(xs) == IF Len(xs) = 0 THEN UNDEFINED ELSE RMaxTo(xs, Len(xs))

RECURSIVE InsertSorted(_, _)
InsertSorted(x, xs) ==
    IF xs = <<>> THEN <<x>>
    ELSE IF RLe(x, xs[1]) THEN <<x>> \o xs
    ELSE <<xs[1]>> \o InsertSorted(x, Tail(xs))

RECURSIVE sortAscending(_)
\* .sort((a, b) => a - b) on rationals
sortAscending(xs) ==
    IF xs = <<>> THEN <<>> ELSE InsertSorted(xs[1], sortAscending(Tail(xs)))

\* d3.quantile(xs, k/4), 0 < k < 4: linear interpolation between order statistics
quantile(xs, k) ==
    LET v == sortAscending(xs)
        n == Len(v)
        i0 == ((n - 1) * k) \div 4
        frac == Rat(((n - 1) * k) % 4, 4)
    IN  IF n = 0 THEN UNDEFINED
        ELSE IF n < 2 THEN v[1]
        ELSE RAdd(v[i0 + 1], RMul(RSub(v[i0 + 2], v[i0 + 1]), frac))

\* d3.median(xs)
median(xs) == quantile(xs, 2)

-----------------------------------------------------------------------------
(* stateMap.js: the CSV row parser and the per-state statistics *)

RECURSIVE TrimEnd(_)
TrimEnd(s) ==
    IF s # "" /\ IsSpace(Ch(s, Len(s))) THEN TrimEnd(SubSeq(s, 1, Len(s) - 1)) ELSE s

RECURSIVE TrimStart(_)
TrimStart(s) ==
    IF s # "" /\ IsSpace(Ch(s, 1)) THEN TrimStart(SubSeq(s, 2, Len(s))) ELSE s

trim(s) == TrimStart(TrimEnd(s))

\* d.Location.match(/,\s*([A-Z]{2})\s*$/): the captured code, "" for no match
matchState(location) ==
    LET t == TrimEnd(location)
        n == Len(t)
        head == IF n >= 2 THEN TrimEnd(SubSeq(t, 1, n - 2)) ELSE ""
    IN  IF /\ n >= 3
           /\ IsUpper(Ch(t, n - 1))
           /\ IsUpper(Ch(t, n))
           /\ head # ""
           /\ Ch(head, Len(head)) = ","
        THEN SubSeq(t, n - 1, n)
        ELSE ""

RECURSIVE CommaGroupsEnd(_, _)
\* (?:,\d{3})* from position q: the position after the last group taken
CommaGroupsEnd(s, q) ==
    IF /\ q + 3 <= Len(s)
       /\ Ch(s, q) = ","
       /\ IsDigit(Ch(s, q + 1)) /\ IsDigit(Ch(s, q + 2)) /\ IsDigit(Ch(s, q + 3))
    THEN CommaGroupsEnd(s, q + 4)
    ELSE q

\* d['Salary Estimate'].match(/\$?(\d+(?:,\d{3})*(?:\.\d{2})?)[Kk]?/g)[0], read as
\* the code reads it (texts without a decimal point): 0 for no match
salaryEstimate(s) ==
    LET firstDigits == {i \in 1..Len(s) : IsDigit(Ch(s, i))}
    IN  IF firstDigits = {} THEN 0
        ELSE LET p == CHOOSE i \in firstDigits : \A j \in firstDigits : i <= j
                 q == CommaGroupsEnd(s, p + DigitPrefixLen(s, p))
                 salary == parseFloatOr0(removeCommas(SubSeq(s, p, q - 1)))
                 hasK == q <= Len(s) /\ Ch(s, q) \in {"K", "k"}
             IN  IF hasK THEN salary * 1000 ELSE salary

\* the row accessor without the conversion of thousands to dollars
parseRow_NoThousands(d) ==
    LET state == IF d.Location # "" THEN matchState(d.Location) ELSE ""
        raw == IF d.avg_salary # "" THEN parseFloatOr0(removeCommas(d.avg_salary))
               ELSE IF d.SalaryEstimate # "" THEN salaryEstimate(d.SalaryEstimate)
               ELSE 0
        avgSalary == raw
        minRaw == parseFloatOr0(removeCommas(d.min_salary))
        maxRaw == parseFloatOr0(removeCommas(d.max_salary))
    IN  [state |-> state,
         avg |-> avgSalary,
         min |-> IF minRaw # 0 THEN RInt(minRaw) ELSE Rat(avgSalary * 4, 5),
         max |-> IF maxRaw # 0 THEN RInt(maxRaw) ELSE Rat(avgSalary * 6, 5),
         title |-> d.JobTitle,
         size |-> d.Size,
         python_yn |-> flagNumber(d.python_yn),
         R_yn |-> flagNumber(d.R_yn),
         spark |-> flagNumber(d.spark),
         aws |-> flagNumber(d.aws),
         excel |-> flagNumber(d.excel)]

\* the row accessor handed to d3.csv
parseRow(d) ==
    LET state == IF d.Location # "" THEN matchState(d.Location) ELSE ""
        raw == IF d.avg_salary # "" THEN parseFloatOr0(removeCommas(d.avg_salary))
               ELSE IF d.SalaryEstimate # "" THEN salaryEstimate(d.SalaryEstimate)
               ELSE 0
        avgSalary == IF raw > 0 /\ raw < 1000 THEN raw * 1000 ELSE raw
        minRaw == parseFloatOr0(removeCommas(d.min_salary))
        maxRaw == parseFloatOr0(removeCommas(d.max_salary))
    IN  [state |-> state,
         avg |-> avgSalary,
         min |-> IF minRaw # 0 THEN RInt(minRaw) ELSE Rat(avgSalary * 4, 5),
         max |-> IF maxRaw # 0 THEN RInt(maxRaw) ELSE Rat(avgSalary * 6, 5),
         title |-> d.JobTitle,
         size |-> d.Size,
         python_yn |-> flagNumber(d.python_yn),
         R_yn |-> flagNumber(d.R_yn),
         spark |-> flagNumber(d.spark),
         aws |-> flagNumber(d.aws),
         excel |-> flagNumber(d.excel)]

\* parseRow on the rows of the pool, computed once
parsedRow == [r \in AllRows |-> parseRow(r)]

\* rows.filter(d => d.avg > 0 && d.state)
IsValidRow(d) == d.avg > 0 /\ d.state # ""
validRows(rows) == Filter(rows, IsValidRow)

RowState(d) == d.state
RowAvg(d) == d.avg

\* the statistics with one entry per record instead of one per state
stateStats_PerRecord(valid) ==
    LET Stat(d) == [state |-> d.state, n |-> 1, avg |-> RInt(d.avg)]
    IN  Map(valid, Stat)

\* Array.from(byState, ...).filter(d => d.avg > 0)
stateStats(valid) ==
    LET states == groupKeys(valid, RowState)
        Stat(st) ==
            LET OfState(d) == d.state = st
                list == Filter(valid, OfState)
            IN  [state |-> trim(st), n |-> Len(list), avg |-> mean(Map(list, RowAvg))]
        Positive(r) == RLt(RInt(0), r.avg)
    IN  Filter(Map(states, Stat), Positive)

StatAvg(r) == r.avg

\* d3.median(stateStats, d => d.avg)
nationalMedianOf(stats) == median(Map(stats, StatAvg))

-----------------------------------------------------------------------------
(* dashboard.js: Dashboard.extractDataFromMap, Dashboard.categorizeJob *)

RECURSIVE numberToString(_)
\* String(n) for a whole number n >= 0
numberToString(n) ==
    IF n < 10 THEN Ch(Digits, n + 1)
    ELSE numberToString(n \div 10) \o Ch(Digits, (n % 10) + 1)

\* Dashboard.generateRandomSize: the three labels Math.random picks among
RandomSizes == <<"Small (1-200)", "Medium (201-1000)", "Large (1000+)">>

\* the size texts a job can carry
PoolSizes == {r.Size : r \in AllRows} \cup {RandomSizes[i] : i \in 1..Len(RandomSizes)}

\* one job of window.debugData.rows; pick is the index Math.random yields when
\* the job carries no size.  The rows the map stores have the fields state,
\* avg, min, max, title, size, ...: avg_salary, min_salary, max_salary and
\* Size are undefined on them.
extractJob(job, pick) ==
    LET read == IF job.avg # 0 THEN parseFloatOr0(numberToString(job.avg)) ELSE 0
        avgSalary == IF read < 30000 \/ read > 300000
                     THEN (IF read < 1000 THEN read * 1000 ELSE read)
                     ELSE read
    IN  [state |-> job.state,
         title |-> job.title,
         avg |-> avgSalary,
         min |-> Rat(avgSalary * 4, 5),
         max |-> Rat(avgSalary * 6, 5),
         python_yn |-> job.python_yn,
         R_yn |-> job.R_yn,
         spark |-> job.spark,
         aws |-> job.aws,
         excel |-> job.excel,
         size |-> IF job.size # "" THEN job.size ELSE RandomSizes[pick]]

\* picks[i] is the random index drawn for rows[i]
extractDataFromMap(rows, picks) ==
    LET idx == {i \in 1..Len(rows) : rows[i].state # "" /\ Len(rows[i].state) = 2}
        F[i \in 0..Len(rows)] ==
            IF i = 0 THEN <<>>
            ELSE IF i \in idx THEN Append(F[i - 1], extractJob(rows[i], picks[i]))
            ELSE F[i - 1]
    IN  F[Len(rows)]

\* Dashboard.categorizeJob
categorizeJob(jobTitle) ==
    IF jobTitle = "" THEN "Other"
    ELSE LET title == toLowerCase(jobTitle)
         IN  IF includes(title, "data scientist") THEN "Data Scientist"
             ELSE IF includes(title, "data engineer") THEN "Data Engineer"
             ELSE IF includes(title, "data analyst") \/ includes(title, "analyst")
                  THEN "Data Analyst"
             ELSE IF includes(title, "machine learning") \/ includes(title, "ml engineer")
                  THEN "ML Engineer"
             ELSE "Other"

\* Dashboard.categorizeJob on the titles of the pool, computed once
dashboardTrack == [t \in PoolTitles |-> categorizeJob(t)]

-----------------------------------------------------------------------------
(* treemap.js: TreemapViz *)

\* TreemapViz.categorizeJob
treemapCategorizeJob(jobTitle) ==
    LET title == toLowerCase(jobTitle)
    IN  IF includes(title, "data scientist") THEN "Data Scientist"
        ELSE IF includes(title, "data engineer") THEN "Data Engineer"
        ELSE IF includes(title, "data analyst") \/ includes(title, "analyst")
             THEN "Data Analyst"
        ELSE IF includes(title, "machine learning") \/ includes(title, "ml engineer")
             THEN "ML Engineer"
        ELSE "Other"

\* categorizeCompanySize recognising the labels of generateRandomSize
categorizeCompanySize_KeepsLabels(size) ==
    IF size = "" \/ size = "-1" \/ size = "Unknown" THEN "Unknown"
    ELSE IF \E k \in 1..Len(RandomSizes) : RandomSizes[k] = size THEN size
    ELSE LET sizeStr == toLowerCase(size)
         IN  IF includes(sizeStr, "1 to 50") \/ includes(sizeStr, "51 to 200")
                 THEN "Small (1-200)"
             ELSE IF includes(sizeStr, "201 to 500") \/ includes(sizeStr, "501 to 1000")
                 THEN "Medium (201-1000)"
             ELSE IF \/ includes(sizeStr, "1001 to 5000")
                     \/ includes(sizeStr, "5001 to 10000")
                     \/ includes(sizeStr, "10000+")
                 THEN "Large (1000+)"
             ELSE "Unknown"

\* TreemapViz.categorizeCompanySize
categorizeCompanySize(size) ==
    IF size = "" \/ size = "-1" \/ size = "Unknown" THEN "Unknown"
    ELSE LET sizeStr == toLowerCase(size)
         IN  IF includes(sizeStr, "1 to 50") \/ includes(sizeStr, "51 to 200")
                 THEN "Small (1-200)"
             ELSE IF includes(sizeStr, "201 to 500") \/ includes(sizeStr, "501 to 1000")
                 THEN "Medium (201-1000)"
             ELSE IF \/ includes(sizeStr, "1001 to 5000")
                     \/ includes(sizeStr, "5001 to 10000")
                     \/ includes(sizeStr, "10000+")
                 THEN "Large (1000+)"
             ELSE "Unknown"

\* the two categorizers of TreemapViz on the texts of the pool, computed once
treemapTrack == [t \in PoolTitles |-> treemapCategorizeJob(t)]
sizeBucket == [z \in PoolSizes |-> categorizeCompanySize(z)]

JobSizeBucket(d) == sizeBucket[d.size]
JobAvg(d) == d.avg
JobMin(d) == d.min
JobMax(d) == d.max

\* TreemapViz.update keeping only the jobs whose title is the track's name
treemapUpdate_ExactTitle(records, track) ==
    LET OfTrack(d) == d.title = track
        filteredData == IF track # NULL THEN Filter(records, OfTrack) ELSE records
        sizes == groupKeys(filteredData, JobSizeBucket)
        Cell(size) ==
            LET OfSize(d) == sizeBucket[d.size] = size
                jobs == Filter(filteredData, OfSize)
            IN  [name |-> size,
                 value |-> Len(jobs),
                 avgSalary |-> mean(Map(jobs, JobAvg)),
                 minSalary |-> min(Map(jobs, JobMin)),
                 maxSalary |-> max(Map(jobs, JobMax)),
                 jobs |-> Len(jobs)]
    IN  Map(sizes, Cell)

\* TreemapViz.update: hierarchyData.children (track is NULL for no selectedTrack)
treemapUpdate(records, track) ==
    LET OfTrack(d) == treemapTrack[d.title] = track
        filteredData == IF track # NULL THEN Filter(records, OfTrack) ELSE records
        sizes == groupKeys(filteredData, JobSizeBucket)
        Cell(size) ==
            LET OfSize(d) == sizeBucket[d.size] = size
                jobs == Filter(filteredData, OfSize)
            IN  [name |-> size,
                 value |-> Len(jobs),
                 avgSalary |-> mean(Map(jobs, JobAvg)),
                 minSalary |-> min(Map(jobs, JobMin)),
                 maxSalary |-> max(Map(jobs, JobMax)),
                 jobs |-> Len(jobs)]
    IN  Map(sizes, Cell)

-----------------------------------------------------------------------------
(* sankey.js: RadarChart *)

\* RadarChart.categorizeJob
radarCategorizeJob(jobTitle) ==
    LET title == toLowerCase(jobTitle)
    IN  IF includes(title, "data scientist") THEN "Data Scientist"
        ELSE IF includes(title, "data engineer") THEN "Data Engineer"
        ELSE IF includes(title, "data analyst") \/ includes(title, "analyst")
             THEN "Data Analyst"
        ELSE IF includes(title, "machine learning") \/ includes(title, "ml engineer")
             THEN "ML Engineer"
        ELSE "Other"

\* RadarChart.categorizeJob on the titles of the pool, computed once
radarTrack == [t \in PoolTitles |-> radarCategorizeJob(t)]

skillFields == <<"python_yn", "R_yn", "spark", "aws", "excel">>

\* skillFields.map(field => skillCount / filteredData.length), filteredData not empty
skillFrequency(filteredData) ==
    LET Freq(field) ==
            LET Has(d) == d[field] = 1
            IN  Rat(Len(Filter(filteredData, Has)), Len(filteredData))
    IN  Map(skillFields, Freq)

\* RadarChart.updateIndustryAverage: the industryAvg it leaves (old is the one before)
updateIndustryAverage(old, records, track) ==
    LET OfTrack(d) == radarTrack[d.title] = track
        filteredData == IF track # NULL THEN Filter(records, OfTrack) ELSE records
    IN  IF Len(filteredData) = 0 THEN old ELSE skillFrequency(filteredData)

-----------------------------------------------------------------------------
(* sankey.js: SankeyViz *)

\* SankeyViz.categorizeJob
sankeyCategorizeJob(jobTitle) ==
    LET title == toLowerCase(jobTitle)
    IN  IF includes(title, "data scientist") THEN "Data Scientist"
        ELSE IF includes(title, "data engineer") THEN "Data Engineer"
        ELSE IF includes(title, "data analyst") \/ includes(title, "analyst")
             THEN "Data Analyst"
        ELSE IF includes(title, "machine learning") \/ includes(title, "ml engineer")
             THEN "ML Engineer"
        ELSE "Other"

\* SankeyViz.categorizeJob on the titles of the pool, computed once
sankeyTrack == [t \in PoolTitles |-> sankeyCategorizeJob(t)]

skills == <<"Python", "R", "Spark", "AWS/Cloud", "Excel">>
tracks == <<"Data Scientist", "Data Engineer", "Data Analyst", "ML Engineer">>
salaryQuartiles == <<"Q1 (Low)", "Q2 (Med-Low)", "Q3 (Med-High)", "Q4 (High)">>

\* SankeyViz.getSkillField
getSkillField(skill) ==
    CASE skill = "Python" -> "python_yn"
      [] skill = "R" -> "R_yn"
      [] skill = "Spark" -> "spark"
      [] skill = "AWS/Cloud" -> "aws"
      [] skill = "Excel" -> "excel"

\* the nodes array with the tracks before the skills
sankeyNodes_TracksFirst ==
    [i \in 1..Len(tracks) |-> [name |-> tracks[i], type |-> "track", layer |-> 1]]
    \o [i \in 1..Len(skills) |-> [name |-> skills[i], type |-> "skill", layer |-> 0]]
    \o [i \in 1..Len(salaryQuartiles) |->
            [name |-> salaryQuartiles[i], type |-> "salary", layer |-> 2]]

\* the nodes array of buildSankeyData
sankeyNodes ==
    [i \in 1..Len(skills) |-> [name |-> skills[i], type |-> "skill", layer |-> 0]]
    \o [i \in 1..Len(tracks) |-> [name |-> tracks[i], type |-> "track", layer |-> 1]]
    \o [i \in 1..Len(salaryQuartiles) |->
            [name |-> salaryQuartiles[i], type |-> "salary", layer |-> 2]]

\* the quartile test with each boundary in both of its buckets
inQuartile_ClosedBuckets(salary, qIndex, q1, q2, q3) ==
    IF q1 = UNDEFINED THEN FALSE
    ELSE LET s == RInt(salary)
         IN  CASE qIndex = 0 -> RLe(s, q1)
               [] qIndex = 1 -> RLe(q1, s) /\ RLe(s, q2)
               [] qIndex = 2 -> RLe(q2, s) /\ RLe(s, q3)
               [] OTHER -> RLe(q3, s)

\* the quartile test with each boundary in the upper bucket
inQuartile_UpperInclusive(salary, qIndex, q1, q2, q3) ==
    IF q1 = UNDEFINED THEN FALSE
    ELSE LET s == RInt(salary)
         IN  CASE qIndex = 0 -> RLt(s, q1)
               [] qIndex = 1 -> RLe(q1, s) /\ RLt(s, q2)
               [] qIndex = 2 -> RLe(q2, s) /\ RLt(s, q3)
               [] OTHER -> RLe(q3, s)

\* the quartile test of buildSankeyData for quartile index qIndex (0-based); a
\* comparison with an undefined boundary is false
inQuartile(salary, qIndex, q1, q2, q3) ==
    IF q1 = UNDEFINED THEN FALSE
    ELSE LET s == RInt(salary)
         IN  CASE qIndex = 0 -> RLe(s, q1)
               [] qIndex = 1 -> RLt(q1, s) /\ RLe(s, q2)
               [] qIndex = 2 -> RLt(q2, s) /\ RLe(s, q3)
               [] OTHER -> RLt(q3, s)

\* the skills -> tracks links counting the records with the skill, whatever their track
skillTrackLinks_AnyTrack(records) ==
    LET Pair(k) == <<((k - 1) \div Len(tracks)) + 1, ((k - 1) % Len(tracks)) + 1>>
        Jobs(k) ==
            LET skillField == getSkillField(skills[Pair(k)[1]])
                Relevant(d) == d[skillField] = 1
            IN  Len(Filter(records, Relevant))
        F[k \in 0..(Len(skills) * Len(tracks))] ==
            IF k = 0 THEN <<>>
            ELSE IF Jobs(k) > 0
                 THEN Append(F[k - 1], [source |-> Pair(k)[1] - 1,
                                        target |-> Len(skills) + Pair(k)[2] - 1,
                                        value |-> Jobs(k),
                                        jobs |-> Jobs(k)])
            ELSE F[k - 1]
    IN  F[Len(skills) * Len(tracks)]

\* the skills -> tracks links, in forEach order (source, target are 0-based indices)
skillTrackLinks(records) ==
    LET Pair(k) == <<((k - 1) \div Len(tracks)) + 1, ((k - 1) % Len(tracks)) + 1>>
        Jobs(k) ==
            LET skillField == getSkillField(skills[Pair(k)[1]])
                Relevant(d) == d[skillField] = 1
                               /\ sankeyTrack[d.title] = tracks[Pair(k)[2]]
            IN  Len(Filter(records, Relevant))
        F[k \in 0..(Len(skills) * Len(tracks))] ==
            IF k = 0 THEN <<>>
            ELSE IF Jobs(k) > 0
                 THEN Append(F[k - 1], [source |-> Pair(k)[1] - 1,
                                        target |-> Len(skills) + Pair(k)[2] - 1,
                                        value |-> Jobs(k),
                                        jobs |-> Jobs(k)])
            ELSE F[k - 1]
    IN  F[Len(skills) * Len(tracks)]

\* the tracks -> salary quartiles links, in forEach order
trackQuartileLinks(records, q1, q2, q3) ==
    LET Pair(k) == <<((k - 1) \div Len(salaryQuartiles)) + 1,
                     ((k - 1) % Len(salaryQuartiles)) + 1>>
        QuartileJobs(k) ==
            LET OfTrack(d) == sankeyTrack[d.title] = tracks[Pair(k)[1]]
                trackJobs == Filter(records, OfTrack)
                InQ(d) == inQuartile(d.avg, Pair(k)[2] - 1, q1, q2, q3)
            IN  Filter(trackJobs, InQ)
        F[k \in 0..(Len(tracks) * Len(salaryQuartiles))] ==
            IF k = 0 THEN <<>>
            ELSE IF Len(QuartileJobs(k)) > 0
                 THEN Append(F[k - 1],
                             [source |-> Len(skills) + Pair(k)[1] - 1,
                              target |-> Len(skills) + Len(tracks) + Pair(k)[2] - 1,
                              value |-> Len(QuartileJobs(k)),
                              avgSalary |-> mean(Map(QuartileJobs(k), JobAvg))])
            ELSE F[k - 1]
    IN  F[Len(tracks) * Len(salaryQuartiles)]

\* SankeyViz.buildSankeyData
buildSankeyData(records) ==
    LET PositiveAvg(d) == d.avg > 0
        salaries == Map(Map(Filter(records, PositiveAvg), JobAvg), RInt)
        q1 == quantile(salaries, 1)
        q2 == quantile(salaries, 2)
        q3 == quantile(salaries, 3)
        links == skillTrackLinks(records) \o trackQuartileLinks(records, q1, q2, q3)
        AtLeastOne(link) == link.value >= 1
    IN  [nodes |-> sankeyNodes, links |-> Filter(links, AtLeastOne)]

\* SankeyViz.update adding the links of a build to those of the build before
sankeyUpdate_Accumulates(records, state) ==
    LET OfState(d) == d.state = state
        filteredData == IF state # NULL THEN Filter(records, OfState) ELSE records
    IN  [nodes |-> sankeyNodes,
         links |-> sankeyData.links \o buildSankeyData(filteredData).links]

\* SankeyViz.update: the {nodes, links} it draws
sankeyUpdate(records, state) ==
    LET OfState(d) == d.state = state
        filteredData == IF state # NULL THEN Filter(records, OfState) ELSE records
    IN  buildSankeyData(filteredData)

-----------------------------------------------------------------------------
(* stateMap.js: the map's features and their state codes *)

\* fipsToAbbr
fipsToAbbr ==
    [f \in {"01", "02", "04", "05", "06", "08", "09", "10", "12", "13",
            "15", "16", "17", "18", "19", "20", "21", "22", "23", "24",
            "25", "26", "27", "28", "29", "30", "31", "32", "33", "34",
            "35", "36", "37", "38", "39", "40", "41", "42", "44", "45",
            "46", "47", "48", "49", "50", "51", "53", "54", "55", "56"} |->
        CASE f = "01" -> "AL" [] f = "02" -> "AK" [] f = "04" -> "AZ" [] f = "05" -> "AR"
          [] f = "06" -> "CA" [] f = "08" -> "CO" [] f = "09" -> "CT" [] f = "10" -> "DE"
          [] f = "12" -> "FL" [] f = "13" -> "GA" [] f = "15" -> "HI" [] f = "16" -> "ID"
          [] f = "17" -> "IL" [] f = "18" -> "IN" [] f = "19" -> "IA" [] f = "20" -> "KS"
          [] f = "21" -> "KY" [] f = "22" -> "LA" [] f = "23" -> "ME" [] f = "24" -> "MD"
          [] f = "25" -> "MA" [] f = "26" -> "MI" [] f = "27" -> "MN" [] f = "28" -> "MS"
          [] f = "29" -> "MO" [] f = "30" -> "MT" [] f = "31" -> "NE" [] f = "32" -> "NV"
          [] f = "33" -> "NH" [] f = "34" -> "NJ" [] f = "35" -> "NM" [] f = "36" -> "NY"
          [] f = "37" -> "NC" [] f = "38" -> "ND" [] f = "39" -> "OH" [] f = "40" -> "OK"
          [] f = "41" -> "OR" [] f = "42" -> "PA" [] f = "44" -> "RI" [] f = "45" -> "SC"
          [] f = "46" -> "SD" [] f = "47" -> "TN" [] f = "48" -> "TX" [] f = "49" -> "UT"
          [] f = "50" -> "VT" [] f = "51" -> "VA" [] f = "53" -> "WA" [] f = "54" -> "WV"
          [] f = "55" -> "WI" [] f = "56" -> "WY"]

\* the 50 known region codes
KnownStates == {fipsToAbbr[f] : f \in DOMAIN fipsToAbbr}

-----------------------------------------------------------------------------
(* The state machine *)

\* history: an event the coordinator handled
Handled(type, arg) == [type |-> type, arg |-> arg]
NoEvent == Handled("none", NULL)

\* sunburstGraph.js: the globals before initSkillsViz's d3.csv settles
SunburstInit ==
    /\ skillsData = [status |-> "pending", rows |-> <<>>]
    /\ sunburstSelectedState = NULL
    /\ isVisualizationVisible = FALSE

Init ==
    /\ clock = 0
    /\ loadStatus = "pending"
    /\ debugData = [rows |-> <<>>, stateStats |-> <<>>]
    /\ nationalMedian = UNDEFINED
    /\ pollDue = {PollInterval}
    /\ timeoutPending = TRUE
    /\ initStatus = "waiting"
    /\ errorReported = FALSE
    /\ constructed = FALSE
    /\ listening = FALSE
    /\ dataAssigned = FALSE
    /\ data = <<>>
    /\ selectedState = NULL
    /\ selectedTrack = NULL
    /\ selectedCompanySize = NULL
    /\ treemap = [drawn |-> FALSE, children |-> <<>>]
    /\ sankeyData = [nodes |-> <<>>, links |-> <<>>]
    /\ industryAvg = [i \in 1..5 |-> RInt(0)]
    /\ lastEvent = NoEvent
    /\ lastFiltered = <<>>
    /\ SunburstInit

dashboardVars == <<initStatus, errorReported, constructed, listening, dataAssigned, data>>
selectionVars == <<selectedState, selectedTrack, selectedCompanySize>>
viewVars == <<treemap, sankeyData, industryAvg>>
historyVars == <<lastEvent, lastFiltered>>
timerVars == <<clock, pollDue, timeoutPending>>
mapVars == <<loadStatus, debugData, nationalMedian>>
sunburstVars == <<skillsData, sunburstSelectedState, isVisualizationVisible>>

\* stateMap.js: Promise.all(...).then(([usTopo, rows]) => ...)
LoadCsv(csv) ==
    LET rows == [i \in 1..Len(csv) |-> parsedRow[csv[i]]]
        valid == validRows(rows)
        stats == stateStats(valid)
    IN  /\ loadStatus = "pending"
        /\ timeoutPending => clock \in LoadClocks
        /\ loadStatus' = "done"
        /\ debugData' = [rows |-> valid, stateStats |-> stats]
        /\ nationalMedian' = nationalMedianOf(stats)
        /\ UNCHANGED <<sunburstVars, timerVars, dashboardVars, selectionVars, viewVars, historyVars>>

MapLoaded == \E csv \in SeqsUpTo(CsvPool, MaxRows) : LoadCsv(csv)

MapLoadedRaw == \E csv \in SeqsUpTo(RawPool, MaxRawRows) : LoadCsv(csv)

\* stateMap.js: .catch(error => console.error("Error loading data:", error))
MapLoadError ==
    /\ loadStatus = "pending"
    /\ loadStatus' = "error"
    /\ UNCHANGED <<sunburstVars, debugData, nationalMedian, timerVars, dashboardVars, selectionVars,
                   viewVars, historyVars>>

\* the timers due now; the 10 s timer was set before every poll timer that
\* expires with it, so it runs first, and before any click made after it expired
TimeoutDue == timeoutPending /\ clock = Timeout
PollIsDue == pollDue = {clock} /\ ~TimeoutDue

\* time passes until the next timer expires
Tick ==
    LET expiries == pollDue \cup (IF timeoutPending THEN {Timeout} ELSE {})
    IN  /\ expiries # {}
        /\ \A t \in expiries : t > clock
        /\ clock' = CHOOSE t \in expiries : \A u \in expiries : t <= u
        /\ UNCHANGED <<sunburstVars, pollDue, timeoutPending, mapVars, dashboardVars, selectionVars,
                       viewVars, historyVars>>

\* the expiry of a poll timer set now.  Once the 10 s timer has fired nothing
\* reads the clock any more, and it stops.
NextPoll == IF timeoutPending THEN clock + PollInterval ELSE clock

\* Dashboard.waitForMapData, checkData with window.debugData still unset
CheckDataNotReady ==
    /\ PollIsDue
    /\ loadStatus # "done"
    /\ pollDue' = {NextPoll}
    /\ UNCHANGED <<sunburstVars, clock, timeoutPending, mapVars, dashboardVars, selectionVars,
                   viewVars, historyVars>>

\* the picks Math.random makes for the jobs without a size (1 where none is made)
RandomPicks(rows) ==
    {p \in [1..Len(rows) -> 1..Len(RandomSizes)] :
        \A i \in 1..Len(rows) : rows[i].size # "" => p[i] = 1}

\* checkData finishing the initialization although the promise was rejected
CheckDataReady_IgnoresReject ==
    /\ PollIsDue
    /\ loadStatus = "done"
    /\ pollDue' = {}
    /\ \E picks \in RandomPicks(debugData.rows) :
            data' = extractDataFromMap(debugData.rows, picks)
    /\ dataAssigned' = TRUE
    /\ initStatus' = "initialized"
    /\ constructed' = TRUE
    /\ listening' = TRUE
    /\ UNCHANGED <<sunburstVars, clock, timeoutPending, errorReported, mapVars, selectionVars,
                   viewVars, historyVars>>

\* Dashboard.waitForMapData, checkData with window.debugData set, and the rest
\* of Dashboard.init when the promise it awaits is still pending
CheckDataReady ==
    /\ PollIsDue
    /\ loadStatus = "done"
    /\ pollDue' = {}
    /\ \E picks \in RandomPicks(debugData.rows) :
            data' = extractDataFromMap(debugData.rows, picks)
    /\ dataAssigned' = TRUE
    /\ IF initStatus = "waiting"
       THEN /\ initStatus' = "initialized"
            /\ constructed' = TRUE
            /\ listening' = TRUE
       ELSE UNCHANGED <<initStatus, constructed, listening>>
    /\ UNCHANGED <<sunburstVars, clock, timeoutPending, errorReported, mapVars, selectionVars,
                   viewVars, historyVars>>

\* Dashboard.waitForMapData, the 10 s timer: reject, and the catch of Dashboard.init
TimeoutFires ==
    /\ TimeoutDue
    /\ timeoutPending' = FALSE
    /\ IF initStatus = "waiting"
       THEN /\ initStatus' = "failed"
            /\ errorReported' = TRUE
       ELSE UNCHANGED <<initStatus, errorReported>>
    /\ UNCHANGED <<sunburstVars, clock, pollDue, constructed, listening, dataAssigned, data, mapVars,
                   selectionVars, viewVars, historyVars>>

-----------------------------------------------------------------------------
(* dashboard.js: the selection handlers *)

\* handleStateSelection without the reset of selectedTrack
handleStateSelection_KeepsTrack(state) ==
    LET OfState(d) == d.state = state
        stateData == Filter(data, OfState)
    IN  /\ selectedState' = state
        /\ selectedCompanySize' = NULL
        /\ IF Len(stateData) > 0
           THEN /\ treemap' = [drawn |-> TRUE, children |-> treemapUpdate(stateData, NULL)]
                /\ sankeyData' = sankeyUpdate(stateData, state)
                /\ industryAvg' = updateIndustryAverage(industryAvg, stateData, NULL)
           ELSE UNCHANGED viewVars
        /\ lastEvent' = Handled("stateSelected", state)
        /\ lastFiltered' = stateData
        /\ UNCHANGED selectedTrack

\* handleStateSelection deselecting a state that is selected again, as the
\* sunburst's listener does
handleStateSelection_Toggles(state) ==
    LET OfState(d) == d.state = state
        stateData == Filter(data, OfState)
    IN  /\ selectedState' = IF selectedState = state THEN NULL ELSE state
        /\ IF selectedState = state
           THEN UNCHANGED <<selectedTrack, selectedCompanySize>>
           ELSE selectedTrack' = NULL /\ selectedCompanySize' = NULL
        /\ IF Len(stateData) > 0
           THEN /\ treemap' = [drawn |-> TRUE, children |-> treemapUpdate(stateData, NULL)]
                /\ sankeyData' = sankeyUpdate(stateData, state)
                /\ industryAvg' = updateIndustryAverage(industryAvg, stateData, NULL)
           ELSE UNCHANGED viewVars
        /\ lastEvent' = Handled("stateSelected", state)
        /\ lastFiltered' = stateData

\* Dashboard.handleStateSelection
handleStateSelection(state) ==
    LET OfState(d) == d.state = state
        stateData == Filter(data, OfState)
    IN  /\ selectedState' = state
        /\ selectedTrack' = NULL
        /\ selectedCompanySize' = NULL
        /\ IF Len(stateData) > 0
           THEN /\ treemap' = [drawn |-> TRUE, children |-> treemapUpdate(stateData, NULL)]
                /\ sankeyData' = sankeyUpdate(stateData, state)
                /\ industryAvg' = updateIndustryAverage(industryAvg, stateData, NULL)
           ELSE UNCHANGED viewVars
        /\ lastEvent' = Handled("stateSelected", state)
        /\ lastFiltered' = stateData

\* handleTrackSelection filtering by state alone
handleTrackSelection_WholeRegion(track) ==
    LET Matches(d) == d.state = selectedState
        filteredData == Filter(data, Matches)
    IN  /\ selectedTrack' = track
        /\ treemap' = [drawn |-> TRUE, children |-> treemapUpdate(filteredData, NULL)]
        /\ industryAvg' = updateIndustryAverage(industryAvg, filteredData, NULL)
        /\ lastEvent' = Handled("trackSelected", track)
        /\ lastFiltered' = filteredData
        /\ UNCHANGED <<selectedState, selectedCompanySize, sankeyData>>

\* handleTrackSelection filtering by track alone
handleTrackSelection_AllStates(track) ==
    LET Matches(d) == dashboardTrack[d.title] = track
        filteredData == Filter(data, Matches)
    IN  /\ selectedTrack' = track
        /\ treemap' = [drawn |-> TRUE, children |-> treemapUpdate(filteredData, track)]
        /\ industryAvg' = updateIndustryAverage(industryAvg, filteredData, track)
        /\ lastEvent' = Handled("trackSelected", track)
        /\ lastFiltered' = filteredData
        /\ UNCHANGED <<selectedState, selectedCompanySize, sankeyData>>

\* handleTrackSelection starting the size choice again
handleTrackSelection_ClearsSize(track) ==
    LET Matches(d) == d.state = selectedState /\ dashboardTrack[d.title] = track
        filteredData == Filter(data, Matches)
    IN  /\ selectedTrack' = track
        /\ selectedCompanySize' = NULL
        /\ treemap' = [drawn |-> TRUE, children |-> treemapUpdate(filteredData, track)]
        /\ industryAvg' = updateIndustryAverage(industryAvg, filteredData, track)
        /\ lastEvent' = Handled("trackSelected", track)
        /\ lastFiltered' = filteredData
        /\ UNCHANGED <<selectedState, sankeyData>>

\* Dashboard.handleTrackSelection
handleTrackSelection(track) ==
    LET Matches(d) == d.state = selectedState /\ dashboardTrack[d.title] = track
        filteredData == Filter(data, Matches)
    IN  /\ selectedTrack' = track
        /\ treemap' = [drawn |-> TRUE, children |-> treemapUpdate(filteredData, track)]
        /\ industryAvg' = updateIndustryAverage(industryAvg, filteredData, track)
        /\ lastEvent' = Handled("trackSelected", track)
        /\ lastFiltered' = filteredData
        /\ UNCHANGED <<selectedState, selectedCompanySize, sankeyData>>

\* handleCompanySizeSelection restarting the track choice
handleCompanySizeSelection_ClearsTrack(size) ==
    /\ selectedCompanySize' = size
    /\ selectedTrack' = NULL
    /\ lastEvent' = Handled("companySizeSelected", size)
    /\ UNCHANGED <<selectedState, viewVars, lastFiltered>>

\* Dashboard.handleCompanySizeSelection
handleCompanySizeSelection(size) ==
    /\ selectedCompanySize' = size
    /\ lastEvent' = Handled("companySizeSelected", size)
    /\ UNCHANGED <<selectedState, selectedTrack, viewVars, lastFiltered>>

\* handleSankeyNodeSelection taking every node for a track
handleSankeyNodeSelection_AnyType(node, type) == handleTrackSelection(node)

\* Dashboard.handleSankeyNodeSelection
handleSankeyNodeSelection(node, type) ==
    IF type = "track"
    THEN handleTrackSelection(node)
    ELSE UNCHANGED <<selectionVars, viewVars, historyVars>>

-----------------------------------------------------------------------------
(* sunburstGraph.js: the sunburst of the selected state *)

\* the job_state column of a file whose rows the map read as `rows`: the state
\* code after a space, as the file writes it, or a file without the column
JobStateColumns(rows) ==
    { [i \in 1..Len(rows) |-> [job_state |-> " " \o rows[i].state]],
      [i \in 1..Len(rows) |-> [job_state |-> ""]] }

\* hideSkillsViz
hideSkillsViz ==
    /\ isVisualizationVisible' = FALSE
    /\ sunburstSelectedState' = NULL

\* selectedState = clickedState; updateSkillsViz(selectedState)
updateSkillsViz(state) ==
    LET OfState(d) == d.job_state # "" /\ trim(d.job_state) = state
        stateData == Filter(skillsData.rows, OfState)
    IN  IF Len(stateData) = 0
        THEN hideSkillsViz
        ELSE /\ sunburstSelectedState' = state
             /\ isVisualizationVisible' = TRUE

\* the stateSelected listener initSkillsViz registers
skillsVizListener(clickedState) ==
    IF sunburstSelectedState = clickedState /\ isVisualizationVisible
    THEN hideSkillsViz
    ELSE updateSkillsViz(clickedState)

-----------------------------------------------------------------------------
(* The user's clicks and the events they dispatch *)

\* stateMap.js: the click handler of a state path.  The paths exist once the
\* map is drawn; the coordinator hears the event once it listens.
\* the click handler dispatching the event whether or not the feature has a code
MapClickOn_AlwaysDispatches(id) ==
    LET stateAbbr == IF id \in DOMAIN fipsToAbbr THEN fipsToAbbr[id] ELSE NULL
    IN  /\ loadStatus = "done"
        /\ ~TimeoutDue
        /\ IF skillsData.status = "done"
           THEN skillsVizListener(stateAbbr)
           ELSE UNCHANGED <<sunburstSelectedState, isVisualizationVisible>>
        /\ IF listening
           THEN handleStateSelection(stateAbbr)
           ELSE UNCHANGED <<selectionVars, viewVars, historyVars>>
        /\ UNCHANGED <<skillsData, timerVars, mapVars, dashboardVars>>

MapClickOn(id) ==
    /\ loadStatus = "done"
    /\ ~TimeoutDue
    /\ IF id \in DOMAIN fipsToAbbr
       THEN /\ IF skillsData.status = "done"
               THEN skillsVizListener(fipsToAbbr[id])
               ELSE UNCHANGED <<sunburstSelectedState, isVisualizationVisible>>
            /\ IF listening
               THEN handleStateSelection(fipsToAbbr[id])
               ELSE UNCHANGED <<selectionVars, viewVars, historyVars>>
       ELSE UNCHANGED <<sunburstSelectedState, isVisualizationVisible, selectionVars,
                       viewVars, historyVars>>
    /\ UNCHANGED <<skillsData, timerVars, mapVars, dashboardVars>>

MapClick == \E id \in ClickedFeatures : MapClickOn(id)

\* sankey.js: SankeyViz.addInteractions, the click handler of a drawn node
SankeyNodeClickOn(i) ==
    /\ listening
    /\ ~TimeoutDue
    /\ handleSankeyNodeSelection(sankeyData.nodes[i].name, sankeyData.nodes[i].type)
    /\ UNCHANGED <<sunburstVars, timerVars, mapVars, dashboardVars>>

SankeyNodeClick == \E i \in 1..Len(sankeyData.nodes) : SankeyNodeClickOn(i)

\* d3.hierarchy(hierarchyData).leaves(): a root without children is itself the leaf
treemapLeaves(children) ==
    IF Len(children) = 0 THEN <<[name |-> "root"]>> ELSE children

\* treemap.js: TreemapViz.handleClick on a drawn cell
TreemapCellClick ==
    /\ treemap.drawn
    /\ listening
    /\ ~TimeoutDue
    /\ \E i \in 1..Len(treemapLeaves(treemap.children)) :
            handleCompanySizeSelection(treemapLeaves(treemap.children)[i].name)
    /\ UNCHANGED <<sunburstVars, timerVars, mapVars, dashboardVars>>

Next ==
    \/ MapLoaded
    \/ MapLoadError
    \/ Tick
    \/ CheckDataNotReady
    \/ CheckDataReady
    \/ TimeoutFires
    \/ MapClick
    \/ SankeyNodeClick
    \/ TreemapCellClick

Spec == Init /\ [][Next]_vars

\* the page after a successful initialization on a file of ViewPool, before
\* any selection
InitViews ==
    \E csv \in SeqsUpTo(ViewPool, MaxViewRows) :
        LET rows == [i \in 1..Len(csv) |-> parsedRow[csv[i]]]
            valid == validRows(rows)
            stats == stateStats(valid)
        IN  /\ clock = 0
            /\ loadStatus = "done"
            /\ debugData = [rows |-> valid, stateStats |-> stats]
            /\ nationalMedian = nationalMedianOf(stats)
            /\ pollDue = {}
            /\ timeoutPending = TRUE
            /\ initStatus = "initialized"
            /\ errorReported = FALSE
            /\ constructed = TRUE
            /\ listening = TRUE
            /\ dataAssigned = TRUE
            /\ data \in {extractDataFromMap(valid, picks) : picks \in RandomPicks(valid)}
            /\ selectedState = NULL
            /\ selectedTrack = NULL
            /\ selectedCompanySize = NULL
            /\ treemap = [drawn |-> FALSE, children |-> <<>>]
            /\ sankeyData = [nodes |-> <<>>, links |-> <<>>]
            /\ industryAvg = [i \in 1..5 |-> RInt(0)]
            /\ lastEvent = NoEvent
            /\ lastFiltered = <<>>
            /\ SunburstInit

\* the tracks the views are rebuilt for (NULL: no track)
ViewTracks == {NULL, "Data Engineer"}

\* treemap.js: TreemapViz.update(data, selectedTrack) on the whole dataset
UpdateTreemap ==
    \E track \in ViewTracks :
        /\ lastEvent = NoEvent
        /\ treemap' = [drawn |-> TRUE, children |-> treemapUpdate(data, track)]
        /\ lastEvent' = Handled("treemap.update", track)
        /\ UNCHANGED <<sunburstVars, timerVars, mapVars, dashboardVars, selectionVars, sankeyData,
                       industryAvg, lastFiltered>>

\* sankey.js: RadarChart.updateIndustryAverage(data, selectedTrack) on the whole dataset
UpdateRadar ==
    \E track \in ViewTracks :
        /\ lastEvent = NoEvent
        /\ industryAvg' = updateIndustryAverage(industryAvg, data, track)
        /\ lastEvent' = Handled("radar.updateIndustryAverage", track)
        /\ UNCHANGED <<sunburstVars, timerVars, mapVars, dashboardVars, selectionVars, treemap,
                       sankeyData, lastFiltered>>

\* sankey.js: SankeyViz.update(data) on the whole dataset, first, again, or
\* after the treemap; the event records whether the graph is built again
UpdateSankey ==
    /\ lastEvent.type # "radar.updateIndustryAverage"
    /\ sankeyData' = sankeyUpdate(data, NULL)
    /\ lastEvent' = Handled("sankey.update",
                            IF lastEvent.type = "sankey.update" THEN "again" ELSE "first")
    /\ UNCHANGED <<sunburstVars, timerVars, mapVars, dashboardVars, selectionVars, treemap,
                   industryAvg, lastFiltered>>

\* the views alone: each is rebuilt from the dataset
NextViews ==
    \/ UpdateTreemap
    \/ UpdateRadar
    \/ UpdateSankey

SpecViews == InitViews /\ [][NextViews]_vars

\* ingestion alone: the map loads a file, the coordinator waits for it
NextIngest ==
    \/ MapLoadedRaw
    \/ MapLoadError
    \/ Tick
    \/ CheckDataNotReady
    \/ CheckDataReady
    \/ TimeoutFires

SpecIngest == Init /\ [][NextIngest]_vars

\* sunburstGraph.js: initSkillsViz, d3.csv(...).then(data => ...): the rows are
\* kept and the stateSelected listener is registered
SkillsLoaded ==
    \E rows \in JobStateColumns(debugData.rows) :
        /\ skillsData.status = "pending"
        /\ skillsData' = [status |-> "done", rows |-> rows]
        /\ UNCHANGED <<sunburstSelectedState, isVisualizationVisible, timerVars, mapVars,
                       dashboardVars, selectionVars, viewVars, historyVars>>

\* sunburstGraph.js: initSkillsViz, .catch(error => console.error(...))
SkillsLoadError ==
    /\ skillsData.status = "pending"
    /\ skillsData' = [status |-> "error", rows |-> <<>>]
    /\ UNCHANGED <<sunburstSelectedState, isVisualizationVisible, timerVars, mapVars,
                   dashboardVars, selectionVars, viewVars, historyVars>>

\* sunburstGraph.js: the close button of the drawn sunburst, .on("click", hideSkillsViz)
CloseSkillsViz ==
    /\ isVisualizationVisible
    /\ hideSkillsViz
    /\ UNCHANGED <<skillsData, timerVars, mapVars, dashboardVars, selectionVars, viewVars,
                   historyVars>>

\* the map and the two listeners of its stateSelected event, on an initialized page
NextSync ==
    \/ SkillsLoaded
    \/ SkillsLoadError
    \/ MapClick
    \/ CloseSkillsViz

SpecSync == InitViews /\ [][NextSync]_vars

-----------------------------------------------------------------------------
(* Properties: what they are stated with *)

\* how often x occurs in s
Occurrences(s, x) == Cardinality({i \in 1..Len(s) : s[i] = x})

\* s holds no record more often than t does
SubBag(s, t) == \A i \in 1..Len(s) : Occurrences(s, s[i]) <= Occurrences(t, s[i])

\* the records of a region, and those of a region and a track
RegionSet(r) ==
    LET In(d) == d.state = r IN Filter(data, In)
RegionTrackSet(r, t) ==
    LET In(d) == d.state = r /\ categorizeJob(d.title) = t IN Filter(data, In)

\* the skill frequency the radar is to show for a set: the fraction of its
\* records with the flag, 0 for every skill of an empty set
ExpectedSkillFrequency(F) ==
    [i \in 1..Len(skillFields) |->
        IF Len(F) = 0 THEN RInt(0)
        ELSE Rat(Cardinality({j \in 1..Len(F) : F[j][skillFields[i]] = 1}), Len(F))]

\* views that show no data
NoDataViews ==
    /\ treemap.children = <<>>
    /\ sankeyData.links = <<>>
    /\ industryAvg = ExpectedSkillFrequency(<<>>)

\* the k-th smallest of the values of xs, 1 <= k <= Len(xs)
OrderStatistic(xs, k) ==
    CHOOSE v \in {xs[i] : i \in 1..Len(xs)} :
        /\ Cardinality({i \in 1..Len(xs) : RLt(xs[i], v)}) < k
        /\ Cardinality({i \in 1..Len(xs) : RLe(xs[i], v)}) >= k

\* the median of a list: the middle value, or the mean of the two middle values
MedianOfList(xs) ==
    LET n == Len(xs)
    IN  IF n = 0 THEN UNDEFINED
        ELSE IF n % 2 = 1 THEN OrderStatistic(xs, (n + 1) \div 2)
        ELSE RMul(RAdd(OrderStatistic(xs, n \div 2), OrderStatistic(xs, (n \div 2) + 1)),
                  Rat(1, 2))

RECURSIVE SetToSeq(_)
SetToSeq(S) ==
    IF S = {} THEN <<>>
    ELSE LET x == CHOOSE y \in S : TRUE IN <<x>> \o SetToSeq(S \ {x})

\* the mean salary of the rows of one region
RegionMean(rows, r) ==
    LET idx == {i \in 1..Len(rows) : rows[i].state = r}
        total == Sum([k \in 1..Len(SetToSeq(idx)) |-> rows[SetToSeq(idx)[k]].avg])
    IN  Rat(total, Cardinality(idx))

\* the per-region means of the rows, one value per region
RegionMeans(rows) ==
    LET regions == SetToSeq({rows[i].state : i \in 1..Len(rows)})
    IN  [k \in 1..Len(regions) |-> RegionMean(rows, regions[k])]

\* the salaries of the rows, one value per record
RecordSalaries(rows) == [i \in 1..Len(rows) |-> RInt(rows[i].avg)]

\* the rows of the scenario {CA 100000, CA 140000, NY 90000}, in any order
IsSkewScenario(rows) ==
    /\ Len(rows) = 3
    /\ {<<rows[i].state, rows[i].avg>> : i \in 1..3}
         = {<<"CA", 100000>>, <<"CA", 140000>>, <<"NY", 90000>>}

-----------------------------------------------------------------------------
(* Properties *)

\* C1: right after the coordinator handled a region selection for r, the
\* selection is (r, no track, no size)
C1_RegionSelectionResets ==
    lastEvent.type = "stateSelected" =>
        /\ selectedState = lastEvent.arg
        /\ selectedTrack = NULL
        /\ selectedCompanySize = NULL

\* a region selection was handled after a track selection: the treemap still
\* shows the cells of a track of California, the region selected now has no records
C1_Witness ==
    /\ lastEvent = Handled("stateSelected", "WY")
    /\ selectedTrack = NULL
    /\ \E k \in 1..Len(tracks) :
        /\ treemap.children = treemapUpdate(RegionTrackSet("CA", tracks[k]), NULL)
        /\ treemap.children # treemapUpdate(RegionSet("CA"), NULL)

\* C2: after a track selection the treemap's size buckets and the radar's skill
\* frequency are both those of the records of the selected region and track,
\* also when there is no such record
C2_TrackViewsOfOneSet ==
    lastEvent.type = "trackSelected" =>
        LET F == RegionTrackSet(selectedState, lastEvent.arg)
        IN  /\ treemap.children = treemapUpdate(F, NULL)
            /\ industryAvg = ExpectedSkillFrequency(F)

\* C3: after a region selection the size buckets, the flow graph and the skill
\* frequency are those of the records of that region, and show no data when
\* the region has no record
C3_RegionViewsOfRegion ==
    lastEvent.type = "stateSelected" =>
        LET F == RegionSet(lastEvent.arg)
        IN  IF Len(F) = 0 THEN NoDataViews
            ELSE /\ treemap.children = treemapUpdate(F, NULL)
                 /\ sankeyData = buildSankeyData(F)
                 /\ industryAvg = ExpectedSkillFrequency(F)

\* C4: the set a track selection filters is made of exactly the records of the
\* selected region that categorizeJob puts in the track, each as often as the
\* dataset holds it, and is contained in the set of the region alone
C4_TrackSetWithinRegionSet ==
    lastEvent.type = "trackSelected" =>
        /\ \A i \in 1..Len(lastFiltered) :
            /\ lastFiltered[i].state = selectedState
            /\ categorizeJob(lastFiltered[i].title) = lastEvent.arg
        /\ \A i \in 1..Len(data) :
            (data[i].state = selectedState /\ categorizeJob(data[i].title) = lastEvent.arg)
                => Occurrences(lastFiltered, data[i]) = Occurrences(data, data[i])
        /\ SubBag(lastFiltered, RegionSet(selectedState))

\* a track selection kept some records of the region and dropped others
C4_Witness ==
    /\ lastEvent.type = "trackSelected"
    /\ Len(lastFiltered) > 0
    /\ Len(lastFiltered) < Len(RegionSet(selectedState))

C6_FlowGraphOfSelectedRegion ==
    lastEvent.type = "trackSelected" =>
        sankeyData = buildSankeyData(RegionSet(selectedState))

\* C7: a size selection records the size and changes neither the selected
\* region, the selected track, the filtered set nor any view
C7_SizeSelectionRecordsOnly ==
    [][TreemapCellClick =>
        /\ selectedCompanySize' = lastEvent'.arg
        /\ lastEvent'.type = "companySizeSelected"
        /\ UNCHANGED <<selectedState, selectedTrack, lastFiltered, data, viewVars>>]_vars

\* a size was recorded while a track is selected
C7_Witness ==
    /\ lastEvent.type = "companySizeSelected"
    /\ selectedCompanySize = lastEvent.arg
    /\ selectedTrack # NULL

\* C8: once the 10 s timer has fired the initialization is decided; if it
\* failed the error was reported, no component is built, no listener is
\* registered, the selection is untouched, and the failure is final
C8_State ==
    /\ (~timeoutPending) => initStatus \in {"initialized", "failed"}
    /\ (~timeoutPending /\ loadStatus # "done") => initStatus = "failed"
    /\ (initStatus = "waiting") => timeoutPending /\ clock <= Timeout
    /\ initStatus = "failed" =>
        /\ errorReported
        /\ ~constructed
        /\ ~listening
        /\ ~treemap.drawn
        /\ sankeyData.nodes = <<>>
        /\ selectedState = NULL /\ selectedTrack = NULL /\ selectedCompanySize = NULL
        /\ lastEvent = NoEvent
C8_Step == initStatus = "failed" => initStatus' = "failed"
C8_TimeoutIsFatal == [](C8_State) /\ [][C8_Step]_vars

\* the initialization failed, and the dataset arrived and was extracted later
C8_Witness ==
    /\ initStatus = "failed"
    /\ loadStatus = "done"
    /\ dataAssigned
    /\ Len(data) > 0

\* C9: every record of the map's rows, of the per-state statistics and of the
\* coordinator's dataset has one of the 50 known state codes and a salary > 0
C9_OnlyKnownRegions ==
    /\ \A i \in 1..Len(debugData.rows) :
        debugData.rows[i].state \in KnownStates /\ debugData.rows[i].avg > 0
    /\ \A i \in 1..Len(debugData.stateStats) :
        debugData.stateStats[i].state \in KnownStates
    /\ \A i \in 1..Len(data) :
        data[i].state \in KnownStates /\ data[i].avg > 0

\* C10: the national median is the median of the per-region mean salaries; on
\* {CA 100000, CA 140000, NY 90000} it is 105000
C10_MedianOfRegionMeans ==
    loadStatus = "done" =>
        /\ nationalMedian = MedianOfList(RegionMeans(debugData.rows))
        /\ IsSkewScenario(debugData.rows) => nationalMedian = RInt(105000)

\* the scenario is loaded, and the median of its three salaries is another number
C10_Witness ==
    /\ loadStatus = "done"
    /\ IsSkewScenario(debugData.rows)
    /\ nationalMedian = RInt(105000)
    /\ MedianOfList(RecordSalaries(debugData.rows)) = RInt(100000)

\* the rows of a region that are valid: a known state code and a salary > 0
ValidRowsOf(rows, r) ==
    {i \in 1..Len(rows) : rows[i].state = r /\ r \in KnownStates /\ rows[i].avg > 0}

\* C11: the per-state statistics hold exactly one entry for every region with
\* a valid record and none for another region; an entry's n is the number of
\* the region's valid records and its avg their mean salary, so the n's sum to
\* the number of valid records
C11_RegionStatsOfValidRecords ==
    loadStatus = "done" =>
        LET rows == debugData.rows
            stats == debugData.stateStats
            Regions == {r \in {rows[i].state : i \in 1..Len(rows)} :
                            ValidRowsOf(rows, r) # {}}
        IN  /\ \A r \in Regions :
                Cardinality({k \in 1..Len(stats) : stats[k].state = r}) = 1
            /\ \A k \in 1..Len(stats) :
                /\ stats[k].state \in Regions
                /\ stats[k].n = Cardinality(ValidRowsOf(rows, stats[k].state))
                /\ stats[k].avg = RegionMean(rows, stats[k].state)
            /\ Sum([k \in 1..Len(stats) |-> stats[k].n])
                 = Cardinality(UNION {ValidRowsOf(rows, r) : r \in Regions})

\* the links of the published flow graph between two nodes (0-based indices),
\* and their weight (0 without a link)
LinksBetween(src, tgt) ==
    {k \in 1..Len(sankeyData.links) :
        sankeyData.links[k].source = src /\ sankeyData.links[k].target = tgt}
LinkWeight(src, tgt) ==
    IF LinksBetween(src, tgt) = {} THEN 0
    ELSE sankeyData.links[CHOOSE k \in LinksBetween(src, tgt) : TRUE].value

\* the quartile boundaries <<q1, q2, q3>> of the dataset's positive salaries
Boundaries ==
    LET Positive(d) == d.avg > 0
        salaries == Map(Map(Filter(data, Positive), JobAvg), RInt)
    IN  <<quantile(salaries, 1), quantile(salaries, 2), quantile(salaries, 3)>>

\* the bucket 1..4 of a salary: the lowest one whose boundary is not below it
SpecBucket(salary, q) ==
    IF RLe(RInt(salary), q[1]) THEN 1
    ELSE IF RLe(RInt(salary), q[2]) THEN 2
    ELSE IF RLe(RInt(salary), q[3]) THEN 3
    ELSE 4

\* the buckets 1..4 the flow graph's quartile test puts a record in
BucketsOf(d, q) == {b \in 1..4 : inQuartile(d.avg, b - 1, q[1], q[2], q[3])}

\* the flow graph was built from a dataset with a positive salary
GraphOfSalaries ==
    /\ lastEvent.type = "sankey.update"
    /\ \E i \in 1..Len(data) : data[i].avg > 0

\* the track -> quartile links count every record of a track in its bucket
QuartileLinksCountBuckets(q) ==
    \A j \in 1..Len(tracks), b \in 1..4 :
        /\ Cardinality(LinksBetween(Len(skills) + j - 1, Len(skills) + Len(tracks) + b - 1)) <= 1
        /\ LinkWeight(Len(skills) + j - 1, Len(skills) + Len(tracks) + b - 1)
             = Cardinality({i \in 1..Len(data) :
                    dashboardTrack[data[i].title] = tracks[j]
                    /\ SpecBucket(data[i].avg, q) = b})

\* C12 (as amended): with q1 <= q2 <= q3 the quartile boundaries of a dataset
\* with a positive salary, every record falls in exactly one of Q1..Q4, the
\* lowest whose boundary is not below its salary, and the track -> quartile
\* links count it there; a salary equal to q1 falls in Q1, one equal to q2 in
\* Q2 unless q2 = q1, one equal to q3 in Q3 unless q3 = q2
C12_QuartileBuckets ==
    GraphOfSalaries =>
        LET q == Boundaries
        IN  /\ RLe(q[1], q[2]) /\ RLe(q[2], q[3])
            /\ \A i \in 1..Len(data) : BucketsOf(data[i], q) = {SpecBucket(data[i].avg, q)}
            /\ QuartileLinksCountBuckets(q)
            /\ \A i \in 1..Len(data) :
                /\ RInt(data[i].avg) = q[1] => BucketsOf(data[i], q) = {1}
                /\ (RInt(data[i].avg) = q[2] /\ RLt(q[1], q[2])) => BucketsOf(data[i], q) = {2}
                /\ (RInt(data[i].avg) = q[3] /\ RLt(q[2], q[3])) => BucketsOf(data[i], q) = {3}

\* a flow graph of two equal salaries and a higher one: the two records on
\* q1 = q2 are in Q1, the third in Q4
C12_Witness ==
    /\ GraphOfSalaries
    /\ Boundaries[1] = Boundaries[2]
    /\ RLt(Boundaries[2], Boundaries[3])
    /\ \E i \in 1..Len(data) : RInt(data[i].avg) = Boundaries[1]
    /\ \E i \in 1..Len(data) : SpecBucket(data[i].avg, Boundaries) = 4

\* C12 (as stated): ... a salary equal to q1 falls in Q1, one equal to q2 in Q2
\* and one equal to q3 in Q3
C12_AsStated ==
    GraphOfSalaries =>
        LET q == Boundaries
        IN  /\ RLe(q[1], q[2]) /\ RLe(q[2], q[3])
            /\ \A i \in 1..Len(data) : Cardinality(BucketsOf(data[i], q)) = 1
            /\ \A i \in 1..Len(data) :
                /\ RInt(data[i].avg) = q[1] => BucketsOf(data[i], q) = {1}
                /\ RInt(data[i].avg) = q[2] => BucketsOf(data[i], q) = {2}
                /\ RInt(data[i].avg) = q[3] => BucketsOf(data[i], q) = {3}

\* C13: after a region or a track selection the published frequency of each of
\* the 5 skills is the fraction of the records of the filtered set with the
\* flag, lies in [0, 1], and is 0 when the filtered set is empty
C13_SkillFrequencyOfContext ==
    lastEvent.type \in {"stateSelected", "trackSelected"} =>
        \A i \in 1..Len(skillFields) :
            /\ industryAvg[i] = ExpectedSkillFrequency(lastFiltered)[i]
            /\ RLe(RInt(0), industryAvg[i]) /\ RLe(industryAvg[i], RInt(1))
            /\ Len(lastFiltered) = 0 => industryAvg[i] = RInt(0)

\* the records of the dataset with the i-th skill flag and the j-th track
SkillTrackRecords(i, j) ==
    {k \in 1..Len(data) :
        data[k][skillFields[i]] = 1 /\ dashboardTrack[data[k].title] = tracks[j]}

LinkBefore(a, b) ==
    \/ a.source < b.source
    \/ a.source = b.source /\ a.target < b.target

FirstMatch(t) ==
    IF includes(t, "data scientist") THEN "Data Scientist"
    ELSE IF includes(t, "data engineer") THEN "Data Engineer"
    ELSE IF includes(t, "data analyst") \/ includes(t, "analyst") THEN "Data Analyst"
    ELSE IF includes(t, "machine learning") \/ includes(t, "ml engineer") THEN "ML Engineer"
    ELSE "Other"

\* the track of each title of the pool by the ordered list alone, and with a
\* title that contains "data" and "engineer" (and no "data scientist") a Data Engineer
ListTrack == [t \in PoolTitles |-> FirstMatch(toLowerCase(t))]
SpecTrack ==
    [t \in PoolTitles |->
        IF /\ includes(toLowerCase(t), "data") /\ includes(toLowerCase(t), "engineer")
           /\ ~includes(toLowerCase(t), "data scientist")
        THEN "Data Engineer"
        ELSE FirstMatch(toLowerCase(t))]

\* C17: every classifier of the dashboard gives a title the first match of
\* Data Scientist, Data Engineer, Data Analyst (or analyst), ML Engineer, else
\* Other, and a title with both "data" and "engineer" (and no "data scientist")
\* is a Data Engineer; the treemap of the Data Engineer track counts these records
C17_FirstMatchingTrack ==
    lastEvent # NoEvent =>
        /\ \A i \in 1..Len(data) :
            /\ dashboardTrack[data[i].title] = SpecTrack[data[i].title]
            /\ sankeyTrack[data[i].title] = SpecTrack[data[i].title]
            /\ treemapTrack[data[i].title] = SpecTrack[data[i].title]
            /\ radarTrack[data[i].title] = SpecTrack[data[i].title]
        /\ lastEvent = Handled("treemap.update", "Data Engineer") =>
            Sum([k \in 1..Len(treemap.children) |-> treemap.children[k].value])
                = Cardinality({i \in 1..Len(data) :
                                SpecTrack[data[i].title] = "Data Engineer"})

\* the bucket of the phrase set a size text belongs to
SpecSize(text) ==
    IF text \in {"1 to 50 employees", "51 to 200 employees"} THEN "Small (1-200)"
    ELSE IF text \in {"201 to 500 employees", "501 to 1000 employees"}
        THEN "Medium (201-1000)"
    ELSE IF text \in {"1001 to 5000 employees", "5001 to 10000 employees",
                      "10000+ employees"}
        THEN "Large (1000+)"
    ELSE "Unknown"

\* the number of jobs the treemap shows in a bucket (0 without a cell)
CellJobs(bucket) ==
    LET cells == {k \in 1..Len(treemap.children) : treemap.children[k].name = bucket}
    IN  IF cells = {} THEN 0 ELSE treemap.children[CHOOSE k \in cells : TRUE].value

\* C18: the treemap of the whole dataset counts every record in the bucket of
\* the phrase set of its size text: Small for "1 to 50" and "51 to 200", Medium
\* for "201 to 500" and "501 to 1000", Large for "1001 to 5000", "5001 to
\* 10000" and "10000+", Unknown for every other text
C18_SizeBucketOfPhraseSet ==
    lastEvent = Handled("treemap.update", NULL) =>
        /\ \A i \in 1..Len(data) : sizeBucket[data[i].size] = SpecSize(data[i].size)
        /\ \A b \in {"Small (1-200)", "Medium (201-1000)", "Large (1000+)", "Unknown"} :
            CellJobs(b) = Cardinality({i \in 1..Len(data) : SpecSize(data[i].size) = b})

\* the rows of the map the treemap's track filter keeps, without a size text
\* and with one
RowsOfTrack(track) ==
    {i \in 1..Len(debugData.rows) :
        track = NULL \/ dashboardTrack[debugData.rows[i].title] = track}
MissingSize(track) == {i \in RowsOfTrack(track) : debugData.rows[i].size = ""}

\* C19: the treemap counts every record without a size text in the Unknown
\* bucket, and its size-bucket stats are the same for every value the random
\* fallback can pick for these records
C19_MissingSizeIsUnknown ==
    lastEvent.type = "treemap.update" =>
        /\ CellJobs("Unknown")
             = Cardinality(MissingSize(lastEvent.arg))
               + Cardinality({i \in RowsOfTrack(lastEvent.arg) \ MissingSize(lastEvent.arg) :
                                SpecSize(debugData.rows[i].size) = "Unknown"})
        /\ \A picks \in RandomPicks(debugData.rows) :
            treemapUpdate(extractDataFromMap(debugData.rows, picks), lastEvent.arg)
                = treemap.children

\* a treemap with a Large cell while a record without a size text, for which
\* the generator picked "Large (1000+)", is counted in Unknown
C19_Witness ==
    /\ lastEvent = Handled("treemap.update", NULL)
    /\ \E i \in 1..Len(data) :
        /\ debugData.rows[i].size = ""
        /\ data[i].size = "Large (1000+)"
    /\ CellJobs("Unknown") = Cardinality(MissingSize(NULL))
    /\ CellJobs("Unknown") >= 1
    /\ CellJobs("Large (1000+)") >= 1

\* the coordinator's dataset is {CA 100000 Data Scientist, CA 140000 Data
\* Engineer, NY 90000 Data Scientist}, in any order
IsScenarioData ==
    /\ Len(data) = 3
    /\ {<<data[i].state, data[i].avg, dashboardTrack[data[i].title]>> : i \in 1..3}
         = {<<"CA", 100000, "Data Scientist">>, <<"CA", 140000, "Data Engineer">>,
            <<"NY", 90000, "Data Scientist">>}

\* California, then the Data Scientist track, were selected on the scenario
ScenarioSelected ==
    /\ IsScenarioData
    /\ selectedState = "CA"
    /\ lastEvent = Handled("trackSelected", "Data Scientist")

\* C20: on the scenario, selecting CA and then Data Scientist filters exactly
\* one record, CA 100000; each skill frequency is that record's flag (0 or 1)
\* and the treemap has one bucket, with count 1 and that record's salary
C20_ScenarioSingleRecord ==
    ScenarioSelected =>
        /\ Len(lastFiltered) = 1
        /\ lastFiltered[1].state = "CA" /\ lastFiltered[1].avg = 100000
        /\ \A i \in 1..Len(skillFields) :
            /\ industryAvg[i] = RInt(lastFiltered[1][skillFields[i]])
            /\ industryAvg[i] \in {RInt(0), RInt(1)}
        /\ Len(treemap.children) = 1
        /\ treemap.children[1].name = SpecSize(lastFiltered[1].size)
        /\ treemap.children[1].value = 1
        /\ treemap.children[1].avgSalary = RInt(100000)

\* the scenario with both selections made, one Small bucket shown
C20_Witness ==
    /\ ScenarioSelected
    /\ Len(lastFiltered) = 1
    /\ CellJobs("Small (1-200)") = 1
    /\ industryAvg[1] = RInt(1) /\ industryAvg[2] = RInt(0)


-----------------------------------------------------------------------------
(* C21: clicks on map features with and without a region code *)

\* C21: a click on a map feature whose identifier has no region code changes
\* neither the selection nor any view (the sunburst included) and reports no
\* error; a click on a feature with a code is heard once by every registered
\* listener, carrying that code.
C21_FeatureWithoutCodeIsIgnored ==
    [][\A id \in ClickedFeatures :
            MapClickOn(id) =>
                IF id \in DOMAIN fipsToAbbr
                THEN /\ listening =>
                            /\ lastEvent' = Handled("stateSelected", fipsToAbbr[id])
                            /\ selectedState' = fipsToAbbr[id]
                     /\ skillsData.status = "done" =>
                            sunburstSelectedState' \in {NULL, fipsToAbbr[id]}
                ELSE UNCHANGED <<selectionVars, viewVars, historyVars, sunburstVars,
                                 errorReported, initStatus>>]_vars

\* a feature with a code was clicked and both listeners heard it, on a page
\* whose map also draws a feature without a code
C21_Witness ==
    /\ ClickedFeatures \ DOMAIN fipsToAbbr # {}
    /\ lastEvent = Handled("stateSelected", "CA")
    /\ sunburstSelectedState = "CA"

-----------------------------------------------------------------------------
(* C22: the sunburst's selected state and the coordinator's *)

\* the job_state column has a row of the state
SkillsRowsOf(state) ==
    \E i \in 1..Len(skillsData.rows) :
        skillsData.rows[i].job_state # "" /\ trim(skillsData.rows[i].job_state) = state

\* C22: after every region-selection event that both the coordinator and the
\* sunburst hear, for a region the sunburst has rows of, the state the
\* sunburst treats as selected is the coordinator's selectedState (also when
\* the same region is selected twice in a row).
C22_SunburstFollowsSelection ==
    [][\A id \in ClickedFeatures \cap DOMAIN fipsToAbbr :
            ( /\ MapClickOn(id)
              /\ listening
              /\ skillsData.status = "done"
              /\ SkillsRowsOf(fipsToAbbr[id]) )
            => sunburstSelectedState' = selectedState']_vars

-----------------------------------------------------------------------------
(* C23, C24: the wait for the dataset and its 10 s timer *)

\* the 10 s timer fires in this step
TimerFiresNow == timeoutPending /\ ~timeoutPending'

\* C23: when the 10 s timer fires after the dataset became ready, the
\* initialization has succeeded (components built, listeners registered) and
\* the firing changes nothing of the coordinator.
C23_ReadyBeforeTimeoutSucceeds ==
    [][(TimerFiresNow /\ loadStatus = "done") =>
            /\ initStatus = "initialized"
            /\ constructed
            /\ listening
            /\ UNCHANGED <<dashboardVars, selectionVars, viewVars>>]_vars

\* C24: once the wait has succeeded or failed no poll is scheduled any more,
\* and the coordinator's dataset no longer changes: after a failure it stays
\* unset, also when the dataset arrives later.
C24_PollingStops ==
    /\ [](initStatus # "waiting" => pollDue = {})
    /\ [][initStatus # "waiting" => UNCHANGED <<dataAssigned, data>>]_vars
    /\ [](initStatus = "failed" => ~dataAssigned)

-----------------------------------------------------------------------------
(* C25, C26: track selections through the flow graph *)

\* C25: a click on a flow-graph node that is no track node changes neither the
\* selection nor any view; a click on a track node has the effect of
\* handleTrackSelection with the node's name, which is one of the four tracks
\* and never Other.
C25_OnlyTrackNodesSelect ==
    [][\A i \in 1..Len(sankeyData.nodes) :
            SankeyNodeClickOn(i) =>
                LET n == sankeyData.nodes[i]
                IN  IF n.type = "track"
                    THEN /\ \E k \in 1..Len(tracks) : tracks[k] = n.name
                         /\ n.name # "Other"
                         /\ handleTrackSelection(n.name)
                         /\ selectedTrack' = n.name
                    ELSE UNCHANGED <<selectionVars, viewVars, historyVars>>]_vars

\* a track node of a drawn flow graph, which also has skill and quartile
\* nodes, was clicked and the track is selected
C25_Witness ==
    /\ lastEvent = Handled("trackSelected", "Data Engineer")
    /\ selectedTrack = "Data Engineer"
    /\ \E i \in 1..Len(sankeyData.nodes) : sankeyData.nodes[i].type = "skill"
    /\ \E i \in 1..Len(sankeyData.nodes) : sankeyData.nodes[i].type = "salary"

\* C26: a track selection changes selectedTrack alone: selectedState and a
\* recorded selectedCompanySize keep their values.
C26_TrackSelectionKeepsRegionAndSize ==
    [][\A i \in 1..Len(sankeyData.nodes) :
            (SankeyNodeClickOn(i) /\ sankeyData.nodes[i].type = "track") =>
                /\ selectedTrack' = sankeyData.nodes[i].name
                /\ selectedState' = selectedState
                /\ selectedCompanySize' = selectedCompanySize]_vars

\* a track was selected while a company size was recorded, and the size is
\* still recorded
C26_Witness ==
    /\ lastEvent.type = "trackSelected"
    /\ selectedState = "CA"
    /\ selectedCompanySize \notin {NULL, "root"}

-----------------------------------------------------------------------------
(* C27: the track -> quartile links count every record of a track once *)

\* the sum of the weights of the links leaving track j for a quartile
TrackOutflow(j) ==
    LET w == [b \in 1..4 |->
                LinkWeight(Len(skills) + j - 1, Len(skills) + Len(tracks) + b - 1)]
    IN  Sum(w)

\* the records of the dataset in track j / in none of the four tracks
TrackRecords(j) == {i \in 1..Len(data) : dashboardTrack[data[i].title] = tracks[j]}
OtherRecords == {i \in 1..Len(data) : dashboardTrack[data[i].title] = "Other"}

\* C27: in a built flow graph the weights of the links from a track to the
\* quartiles sum to the number of the track's records, for each of the four
\* tracks; records of no track are in no link, so that the total of these
\* weights is the number of records whose track is not Other.
C27_TrackLinksCountTrackRecords ==
    lastEvent.type = "sankey.update" =>
        LET out == [j \in 1..Len(tracks) |-> TrackOutflow(j)]
        IN  /\ \A j \in 1..Len(tracks) : out[j] = Cardinality(TrackRecords(j))
            /\ Sum(out) = Len(data) - Cardinality(OtherRecords)
            /\ \A k \in 1..Len(sankeyData.links) :
                    /\ sankeyData.links[k].source < Len(sankeyData.nodes)
                    /\ sankeyData.links[k].target < Len(sankeyData.nodes)
                    /\ sankeyData.nodes[sankeyData.links[k].source + 1].name # "Other"
                    /\ sankeyData.nodes[sankeyData.links[k].target + 1].name # "Other"

\* a flow graph built from a record of no track and two records of one track
C27_Witness ==
    /\ lastEvent.type = "sankey.update"
    /\ OtherRecords # {}
    /\ \E j \in 1..Len(tracks) :
            /\ Cardinality(TrackRecords(j)) = 2
            /\ TrackOutflow(j) = 2

-----------------------------------------------------------------------------
(* C28: the treemap's cells partition the filtered set *)

\* the number of jobs of the drawn cells
CellJobsTotal ==
    LET v == [k \in 1..Len(treemap.children) |-> treemap.children[k].value]
    IN  Sum(v)

\* the treemap was rebuilt from the set the last selection filtered
TreemapOfLastFiltered ==
    \/ lastEvent.type = "trackSelected"
    \/ lastEvent.type = "stateSelected" /\ Len(lastFiltered) > 0

\* C28: the cells of the treemap partition the set the coordinator filtered:
\* every record is counted in the one cell of its size bucket, the counts sum
\* to the size of the set, no cell counts 0 records, and the track filter the
\* treemap applies once more removes no record of the coordinator's set.
C28_SizeBucketsPartition ==
    TreemapOfLastFiltered =>
        /\ \A k \in 1..Len(treemap.children) :
                /\ treemap.children[k].value > 0
                /\ treemap.children[k].value
                     = Cardinality({i \in 1..Len(lastFiltered) :
                            sizeBucket[lastFiltered[i].size] = treemap.children[k].name})
                /\ \A l \in 1..Len(treemap.children) :
                        treemap.children[l].name = treemap.children[k].name => l = k
        /\ \A i \in 1..Len(lastFiltered) :
                \E k \in 1..Len(treemap.children) :
                    treemap.children[k].name = sizeBucket[lastFiltered[i].size]
        /\ CellJobsTotal = Len(lastFiltered)

\* the treemap of a selected track whose records the coordinator filtered by a
\* title that is not the track's name
C28_Witness ==
    /\ lastEvent = Handled("trackSelected", "Data Engineer")
    /\ Len(lastFiltered) >= 1
    /\ CellJobsTotal = Len(lastFiltered)
    /\ \E i \in 1..Len(lastFiltered) : lastFiltered[i].title # "Data Engineer"

-----------------------------------------------------------------------------
(* C29: the order of a record's salaries *)

\* min <= avg <= max on a record
SalariesOrdered(d) == RLe(d.min, RInt(d.avg)) /\ RLe(RInt(d.avg), d.max)

\* C29: every record the map normalized and every record the coordinator
\* extracted has min <= avg <= max, whether the bounds were read from the row
\* or are the defaults avg * 0.8 and avg * 1.2.
C29_SalaryBoundsOrdered ==
    /\ \A i \in 1..Len(debugData.rows) : SalariesOrdered(debugData.rows[i])
    /\ \A i \in 1..Len(data) : SalariesOrdered(data[i])

-----------------------------------------------------------------------------
(* C30: the two salary normalizations *)

\* the salary a CSV row writes: its avg_salary, else the first number of its
\* Salary Estimate (with K for thousands)
RawSalary(r) ==
    IF r.avg_salary # "" THEN parseFloatOr0(removeCommas(r.avg_salary))
    ELSE salaryEstimate(r.SalaryEstimate)

\* C30: for a row that writes the positive whole salary s the map's record has
\* avg = s * 1000 if s < 1000 and avg = s otherwise, which is at least 1000;
\* the coordinator's normalization returns the map's value unchanged, so the
\* records of the views carry the salaries of the region statistics.
C30_NormalizationIsIdempotent ==
    /\ \A i \in 1..Len(debugData.rows) :
            /\ debugData.rows[i].avg >= 1000
            /\ \A r \in RawPool :
                    (parsedRow[r] = debugData.rows[i] /\ RawSalary(r) > 0) =>
                        debugData.rows[i].avg
                            = IF RawSalary(r) < 1000 THEN RawSalary(r) * 1000
                              ELSE RawSalary(r)
    /\ dataAssigned =>
            /\ Len(data) = Len(debugData.rows)
            /\ \A i \in 1..Len(data) : data[i].avg = debugData.rows[i].avg

\* the coordinator extracted a record whose row writes its salary in
\* thousands, one whose row writes it in dollars, and one below the range
\* 30000..300000 its normalization tests
C30_Witness ==
    /\ dataAssigned
    /\ \E i, j \in 1..Len(data) :
            /\ data[i].avg = 100000
            /\ \E r \in RawPool : parsedRow[r] = debugData.rows[i] /\ RawSalary(r) = 100
            /\ data[j].avg = 95000
            /\ \E r \in RawPool : parsedRow[r] = debugData.rows[j] /\ RawSalary(r) = 95000
    /\ \E k \in 1..Len(data) : data[k].avg = 25000

====
